---- MODULE Spec2Model ----
(***************************************************************************)
(* Landing-page analyzer: the /api/analyze route handler (both versions    *)
(* kept in the repository), the browser factory createPuppeteerBrowser,    *)
(* and the client page (Home) that drives the analysis, the screenshot     *)
(* preview and the email capture.                                          *)
(***************************************************************************)
EXTENDS Integers, Sequences, FiniteSets, TLC

\* ------------------------------------------------------------------- state

\* The /api/analyze route handler.
VARIABLES
    handler,        \* which version of POST serves the request
    body,           \* the parsed request body
    pc,             \* position of the handler
    analysisResult, \* the result object built up incrementally
    scores,         \* scores pushed so far
    calls,          \* collaborator calls of this request, in order
    response,       \* the response of this request (NoResponse while running)
    requests,       \* requests begun so far
    firstReport     \* the first success response served, or NoResponse

routeVars ==
    <<handler, body, pc, analysisResult, scores, calls, response, requests, firstReport>>

\* createPuppeteerBrowser.
VARIABLES
    env,            \* process.env: NODE_ENV and BLESS_KEY
    options,        \* the options of the call under way
    bpc,            \* position of createPuppeteerBrowser
    localPuppeteer, \* the module-level cache of the imported puppeteer
    endpoint,       \* browserWSEndpoint of the call under way
    executablePath, \* what getLocalExecutablePath returned
    bcalls,         \* puppeteer calls of the call under way, in order
    outcome,        \* how the call ended
    invocations     \* calls of createPuppeteerBrowser so far

browserVars ==
    <<env, options, bpc, localPuppeteer, endpoint, executablePath, bcalls, outcome,
      invocations>>

\* The page (Home).
VARIABLES
    analysisState,   \* the React state of Home
    pendingEmailRef, \* pendingEmailRef.current
    runs,            \* the calls of handleAnalyze so far, each with its position
    emailCalls,      \* the calls of callEmailAPI so far, each with its position
    emailSubmits     \* calls of handleEmailSubmit so far

pageVars == <<analysisState, pendingEmailRef, runs, emailCalls, emailSubmits>>

vars == <<routeVars, browserVars, pageVars>>

\* ------------------------------------------------------------------ bounds

\* Requests one behaviour of the route handler serves.
MaxRequests == 2

\* ------------------------------------------------------------- JS values

Undefined == "<undefined>"
Null == "<null>"

\* JavaScript truthiness of the string-valued inputs used here.
Falsy(v) == v \in {Undefined, Null, ""}

\* ------------------------------------------------------- route: inputs

UrlInputs ==
    {Undefined, "", "not a url", "ftp://example.com",
     "http://example.com", "HTTPS://Example.com/a"}

ComponentInputs ==
    {Undefined, "all", "speed", "pageSpeed", "font", "image", "cta", "social"}

\* What request.json() yields: a parsed object, or a rejection (not JSON).
NotJson ==
    [parsed |-> FALSE, url |-> Undefined, component |-> Undefined, forceRescan |-> FALSE]

Bodies ==
    [parsed : {TRUE}, url : UrlInputs, component : ComponentInputs,
     forceRescan : BOOLEAN] \cup {NotJson}

Handlers == {"route.ts", "part_000"}

AnalyzerKinds == {"speed", "font", "image", "cta"}

\* Results the black-box analyzers may return (score 0..100 and issues).
SpeedResults == {[score |-> 80, issues |-> {}], [score |-> 55, issues |-> {"slow LCP"}]}
FontResults == {[score |-> 60, issues |-> {"too many fonts"}], [score |-> 100, issues |-> {}]}
ImageResults == {[score |-> 90, issues |-> {}], [score |-> 0, issues |-> {"no alt text"}]}
CtaResults == {[score |-> 70, issues |-> {}], [score |-> 85, issues |-> {}]}

\* ------------------------------------------------------- route: helpers

\* new URL(url): throws on an unparseable string; otherwise the protocol is
\* the lower-cased scheme with its colon and toString() the normalised href.
URLParses(u) == u \in {"ftp://example.com", "http://example.com", "HTTPS://Example.com/a"}

URLProtocol(u) ==
    CASE u = "ftp://example.com" -> "ftp:"
      [] u = "http://example.com" -> "http:"
      [] u = "HTTPS://Example.com/a" -> "https:"
      [] OTHER -> Undefined

URLToString(u) ==
    CASE u = "ftp://example.com" -> "ftp://example.com/"
      [] u = "http://example.com" -> "http://example.com/"
      [] u = "HTTPS://Example.com/a" -> "https://example.com/a"
      [] OTHER -> Undefined

AllowedProtocols_AnyScheme == {"http:", "https:", "ftp:"}

AllowedProtocols == {"http:", "https:"}

\* "ok", or the error message of the 400 response.
ValidateUrl(url) ==
    IF Falsy(url) THEN "URL is required"
    ELSE IF ~URLParses(url) \/ URLProtocol(url) \notin AllowedProtocols
         THEN "Invalid URL format"
         ELSE "ok"

shouldRun(component, componentName) ==
    Falsy(component) \/ component = "all" \/ component = componentName

SumSeq(s) ==
    LET F[i \in 0..Len(s)] == IF i = 0 THEN 0 ELSE F[i - 1] + s[i]
    IN F[Len(s)]

\* Math.round of a non-negative quotient num/den: nearest integer, ties up.
MathRound(num, den) == (2 * num + den) \div (2 * den)

OverallScore(s) ==
    IF Len(s) > 0 THEN MathRound(SumSeq(s), Len(s)) ELSE 0

DefaultEntry == [score |-> 0, issues |-> {}]

SpeedFailureIssue == "Page speed analysis failed due to error"
CtaFailureIssue == "CTA analysis failed due to error"

FailedEntry(k) ==
    [score |-> 0,
     issues |-> {IF k = "speed" THEN SpeedFailureIssue ELSE CtaFailureIssue}]

InitialAnalysisResult(href) ==
    [url |-> href,
     speed |-> DefaultEntry,
     font |-> DefaultEntry,
     image |-> DefaultEntry,
     cta |-> DefaultEntry,
     overallScore |-> 0,
     status |-> "completed"]

NoResponse == [status |-> 0]

ErrorResponse(code, msg) == [status |-> code, error |-> msg]

SuccessResponse(ar) ==
    [status |-> 200, success |-> TRUE, analysis |-> ar,
     message |-> "Analysis completed successfully."]

\* A collaborator call: what was called, whether it threw, what it returned.
Call(op, threw, ret) == [op |-> op, threw |-> threw, ret |-> ret]

\* ------------------------------------------------------- route: actions

RouteInit ==
    /\ handler = "route.ts"
    /\ body = NotJson
    /\ pc = "idle"
    /\ analysisResult = InitialAnalysisResult(Undefined)
    /\ scores = <<>>
    /\ calls = <<>>
    /\ response = NoResponse
    /\ requests = 0
    /\ firstReport = [request |-> 0, response |-> NoResponse]

\* The outer catch: any escaping exception becomes a 500.
InternalError ==
    /\ response' = ErrorResponse(500, "Internal server error")
    /\ pc' = "done"

\* Request parsing and validation, up to the initialised result object.
POST_Begin(h, b) ==
    /\ pc = "idle"
    /\ requests < MaxRequests
    /\ requests' = requests + 1
    /\ handler' = h
    /\ body' = b
    /\ calls' = <<>>
    /\ scores' = <<>>
    /\ UNCHANGED firstReport
    /\ IF ~b.parsed
       THEN /\ InternalError
            /\ analysisResult' = InitialAnalysisResult(Undefined)
       ELSE IF ValidateUrl(b.url) # "ok"
       THEN /\ response' = ErrorResponse(400, ValidateUrl(b.url))
            /\ pc' = "done"
            /\ analysisResult' = InitialAnalysisResult(Undefined)
       ELSE /\ response' = NoResponse
            /\ pc' = IF h = "part_000" THEN "speed" ELSE "font"
            /\ analysisResult' = InitialAnalysisResult(URLToString(b.url))
    /\ UNCHANGED <<browserVars, pageVars>>

Skip(next) ==
    /\ pc' = next
    /\ UNCHANGED <<analysisResult, scores, calls, response>>

Succeed(k, op, r, next) ==
    /\ analysisResult' = [analysisResult EXCEPT ![k] = r]
    /\ scores' = Append(scores, r.score)
    /\ calls' = Append(calls, Call(op, FALSE, <<r>>))
    /\ pc' = next
    /\ UNCHANGED response

\* No inner catch: the exception reaches the outer catch.
Escapes(op) ==
    /\ calls' = Append(calls, Call(op, TRUE, <<>>))
    /\ InternalError
    /\ UNCHANGED <<analysisResult, scores>>

Caught_Rethrows(k, op, next) == Escapes(op)

\* An inner catch block: the analyzer's entry is replaced, the run goes on.
Caught(k, op, next) ==
    /\ analysisResult' = [analysisResult EXCEPT ![k] = FailedEntry(k)]
    /\ calls' = Append(calls, Call(op, TRUE, <<>>))
    /\ pc' = next
    /\ UNCHANGED <<scores, response>>

POST_Speed ==
    /\ pc = "speed"
    /\ UNCHANGED <<handler, body, requests, firstReport>>
    /\ IF ~(shouldRun(body.component, "speed") \/ shouldRun(body.component, "pageSpeed"))
       THEN Skip("font")
       ELSE \/ \E r \in SpeedResults : Succeed("speed", "analyzePageSpeed", r, "font")
            \/ Caught("speed", "analyzePageSpeed", "font")
    /\ UNCHANGED <<browserVars, pageVars>>

POST_Font ==
    /\ pc = "font"
    /\ UNCHANGED <<handler, body, requests, firstReport>>
    /\ IF ~shouldRun(body.component, "font")
       THEN Skip("image")
       ELSE \/ \E r \in FontResults : Succeed("font", "analyzeFontUsage", r, "image")
            \/ Escapes("analyzeFontUsage")
    /\ UNCHANGED <<browserVars, pageVars>>

POST_Image ==
    /\ pc = "image"
    /\ UNCHANGED <<handler, body, requests, firstReport>>
    /\ IF ~shouldRun(body.component, "image")
       THEN Skip("cta")
       ELSE \/ \E r \in ImageResults : Succeed("image", "analyzeImageOptimization", r, "cta")
            \/ Escapes("analyzeImageOptimization")
    /\ UNCHANGED <<browserVars, pageVars>>

\* part_000: analyzeCTA(url) inside its own try/catch, no browser.
POST_CTA ==
    /\ pc = "cta"
    /\ handler = "part_000"
    /\ UNCHANGED <<handler, body, requests, firstReport>>
    /\ IF ~shouldRun(body.component, "cta")
       THEN Skip("finish")
       ELSE \/ \E r \in CtaResults : Succeed("cta", "analyzeCTA", r, "finish")
            \/ Caught("cta", "analyzeCTA", "finish")
    /\ UNCHANGED <<browserVars, pageVars>>

\* route.ts: where control goes after the CTA try block, normally or through
\* its catch: the finally clause closes the browser.
CtaFinally_OnlyOnSuccess(threw) == IF threw THEN "finish" ELSE "browserClose"

CtaFinally(threw) == "browserClose"

\* route.ts: puppeteer.launch, before the try block.
POST_Launch ==
    /\ pc = "cta"
    /\ handler = "route.ts"
    /\ UNCHANGED <<handler, body, requests, firstReport>>
    /\ IF ~shouldRun(body.component, "cta")
       THEN Skip("finish")
       ELSE \/ /\ calls' = Append(calls, Call("puppeteer.launch", FALSE, <<>>))
               /\ pc' = "newPage"
               /\ UNCHANGED <<analysisResult, scores, response>>
            \/ Escapes("puppeteer.launch")
    /\ UNCHANGED <<browserVars, pageVars>>

PageSteps == <<"newPage", "setViewport", "goto", "content", "analyzeCTA">>

PageOp(step) ==
    CASE step = "newPage" -> "browser.newPage"
      [] step = "setViewport" -> "page.setViewport"
      [] step = "goto" -> "page.goto"
      [] step = "content" -> "page.content"

\* route.ts: the page calls that precede the analyzer inside the try block.
POST_Page ==
    /\ \E i \in 1..4 :
        /\ pc = PageSteps[i]
        /\ \/ /\ calls' = Append(calls, Call(PageOp(pc), FALSE, <<>>))
              /\ pc' = PageSteps[i + 1]
              /\ UNCHANGED <<analysisResult, scores, response>>
           \/ Caught("cta", PageOp(pc), CtaFinally(TRUE))
    /\ UNCHANGED <<handler, body, requests, firstReport>>
    /\ UNCHANGED <<browserVars, pageVars>>

\* route.ts: analyzeCTA(htmlContent); on success the score is pushed.
POST_AnalyzeCTA ==
    /\ pc = "analyzeCTA"
    /\ UNCHANGED <<handler, body, requests, firstReport>>
    /\ \/ \E r \in CtaResults : Succeed("cta", "analyzeCTA", r, "pageClose")
       \/ Caught("cta", "analyzeCTA", CtaFinally(TRUE))
    /\ UNCHANGED <<browserVars, pageVars>>

\* route.ts: page.close(), the last statement of the try block.
POST_PageClose ==
    /\ pc = "pageClose"
    /\ UNCHANGED <<handler, body, requests, firstReport>>
    /\ \/ /\ calls' = Append(calls, Call("page.close", FALSE, <<>>))
          /\ pc' = CtaFinally(FALSE)
          /\ UNCHANGED <<analysisResult, scores, response>>
       \/ Caught("cta", "page.close", CtaFinally(TRUE))
    /\ UNCHANGED <<browserVars, pageVars>>

\* route.ts: the finally clause.
POST_BrowserClose ==
    /\ pc = "browserClose"
    /\ UNCHANGED <<handler, body, requests, firstReport>>
    /\ \/ /\ calls' = Append(calls, Call("browser.close", FALSE, <<>>))
          /\ pc' = "finish"
          /\ UNCHANGED <<analysisResult, scores, response>>
       \/ Escapes("browser.close")
    /\ UNCHANGED <<browserVars, pageVars>>

\* overallScore and the success response.
POST_Finish ==
    /\ pc = "finish"
    /\ analysisResult' = [analysisResult EXCEPT !.overallScore = OverallScore(scores)]
    /\ response' = SuccessResponse(analysisResult')
    /\ pc' = "done"
    /\ firstReport' = IF firstReport.request = 0
                       THEN [request |-> requests, response |-> response']
                       ELSE firstReport
    /\ UNCHANGED <<handler, body, scores, calls, requests>>
    /\ UNCHANGED <<browserVars, pageVars>>

\* The response is sent and the handler's locals are gone.
POST_Return ==
    /\ pc = "done"
    /\ pc' = "idle"
    /\ handler' = "route.ts"
    /\ body' = NotJson
    /\ analysisResult' = InitialAnalysisResult(Undefined)
    /\ scores' = <<>>
    /\ calls' = <<>>
    /\ response' = NoResponse
    /\ UNCHANGED <<requests, firstReport>>
    /\ UNCHANGED <<browserVars, pageVars>>

RouteNext ==
    \/ \E h \in Handlers, b \in Bodies : POST_Begin(h, b)
    \/ POST_Return
    \/ POST_Speed
    \/ POST_Font
    \/ POST_Image
    \/ POST_CTA
    \/ POST_Launch
    \/ POST_Page
    \/ POST_AnalyzeCTA
    \/ POST_PageClose
    \/ POST_BrowserClose
    \/ POST_Finish

\* ------------------------------------------------- route: properties

AnalyzerOp(k) ==
    CASE k = "speed" -> "analyzePageSpeed"
      [] k = "font" -> "analyzeFontUsage"
      [] k = "image" -> "analyzeImageOptimization"
      [] k = "cta" -> "analyzeCTA"

CallsOf(op) == {i \in DOMAIN calls : calls[i].op = op}

Invoked(k) == CallsOf(AnalyzerOp(k)) # {}

Threw(k) == \E i \in CallsOf(AnalyzerOp(k)) : calls[i].threw

Returned(k) == \E i \in CallsOf(AnalyzerOp(k)) : ~calls[i].threw

ReturnOf(k) == calls[CHOOSE i \in CallsOf(AnalyzerOp(k)) : ~calls[i].threw].ret[1]

\* The analyzers the handler version has.
KindsOf(h) == IF h = "part_000" THEN AnalyzerKinds ELSE AnalyzerKinds \ {"speed"}

FilterAll == body.parsed /\ (Falsy(body.component) \/ body.component = "all")

Answered == pc = "done" /\ response # NoResponse

IsReport == Answered /\ response.status = 200

MarkedFailed(ar, k) == ar[k].issues \cap {SpeedFailureIssue, CtaFailureIssue} # {}

\* Analyzers the report shows as succeeded: invoked, returned, not marked failed.
SucceededIn(ar) == {k \in AnalyzerKinds : Returned(k) /\ ~MarkedFailed(ar, k)}

ScoreSum(ar, S) ==
    (IF "speed" \in S THEN ar.speed.score ELSE 0)
    + (IF "font" \in S THEN ar.font.score ELSE 0)
    + (IF "image" \in S THEN ar.image.score ELSE 0)
    + (IF "cta" \in S THEN ar.cta.score ELSE 0)

\* o is the integer nearest to sum/n, ties rounded up; 0 when n = 0.
IsRoundedMean(o, sum, n) ==
    IF n = 0 THEN o = 0
    ELSE 2 * o * n - n <= 2 * sum /\ 2 * sum < 2 * o * n + n

\* K is the only call of the run that threw.
OnlyThrower(k) ==
    /\ Threw(k)
    /\ \A i \in DOMAIN calls : calls[i].threw => calls[i].op = AnalyzerOp(k)

\* C1: failure isolation. With filter 'all', when analyzer K is the only one
\* that throws, the request ends with a success report in which only K is
\* marked failed, every other analyzer keeps its own result, and overallScore
\* is the rounded mean of the other analyzers' scores.
C1_FailureIsolation ==
    \A k \in AnalyzerKinds :
        (pc = "done" /\ FilterAll /\ k \in KindsOf(handler) /\ OnlyThrower(k)) =>
            /\ response.status = 200
            /\ response.analysis[k].score = 0
            /\ \A j \in KindsOf(handler) \ {k} :
                   /\ Returned(j)
                   /\ ~MarkedFailed(response.analysis, j)
                   /\ response.analysis[j] = ReturnOf(j)
            /\ IsRoundedMean(response.analysis.overallScore,
                             ScoreSum(response.analysis, KindsOf(handler) \ {k}),
                             Cardinality(KindsOf(handler) \ {k}))

\* C1, the part the code keeps: isolation holds for the analyzers whose call
\* sits in its own try/catch (speed in part_000, analyzeCTA in both versions).
C1_IsolationOfWrappedAnalyzers ==
    \A k \in {"speed", "cta"} :
        (pc = "done" /\ FilterAll /\ k \in KindsOf(handler) /\ OnlyThrower(k)) =>
            /\ response.status = 200
            /\ MarkedFailed(response.analysis, k)
            /\ \A j \in KindsOf(handler) \ {k} : response.analysis[j] = ReturnOf(j)
            /\ IsRoundedMean(response.analysis.overallScore,
                             ScoreSum(response.analysis, KindsOf(handler) \ {k}),
                             Cardinality(KindsOf(handler) \ {k}))

\* C2: in every run that returns a report, overallScore is the rounded mean
\* of the scores of the analyzers the report shows as succeeded (0 when there
\* is none), a failed analyzer being left out of the mean, and it lies in
\* 0..100.
C2_OverallScoreIsMeanOfSucceeded ==
    IsReport =>
        LET ar == response.analysis
            S == SucceededIn(ar)
        IN /\ IsRoundedMean(ar.overallScore, ScoreSum(ar, S), Cardinality(S))
           /\ ar.overallScore \in 0..100

\* C2, the part the code keeps: overallScore is the rounded mean of the
\* scores the analyzers returned, whether or not the report keeps the entry.
C2_OverallScoreIsMeanOfReturned ==
    IsReport =>
        LET ar == response.analysis
            R == {k \in AnalyzerKinds : Returned(k)}
            sum == (IF "speed" \in R THEN ReturnOf("speed").score ELSE 0)
                   + (IF "font" \in R THEN ReturnOf("font").score ELSE 0)
                   + (IF "image" \in R THEN ReturnOf("image").score ELSE 0)
                   + (IF "cta" \in R THEN ReturnOf("cta").score ELSE 0)
        IN /\ IsRoundedMean(ar.overallScore, sum, Cardinality(R))
           /\ ar.overallScore \in 0..100

\* The URL of the parsed body is missing, unparseable or not http(s).
InvalidUrlInput(u) ==
    \/ u \in {Undefined, Null, ""}
    \/ ~URLParses(u)
    \/ URLProtocol(u) \notin {"http:", "https:"}

\* C3: validation precedes all resource use. A request whose URL is missing,
\* unparseable or not http(s) is answered 400, and on that run no analyzer
\* is invoked and no browser is launched; a body that is not JSON touches no
\* resource either.
C3_ValidationPrecedesResourceUse ==
    /\ (pc # "idle" /\ body.parsed /\ InvalidUrlInput(body.url)) =>
           /\ pc = "done"
           /\ response.status = 400
           /\ calls = <<>>
    /\ (pc # "idle" /\ ~body.parsed) => (pc = "done" /\ calls = <<>>)

C3_Witness_FtpRejected ==
    /\ requests = 2
    /\ body.parsed
    /\ body.url = "ftp://example.com"
    /\ response = ErrorResponse(400, "Invalid URL format")
    /\ firstReport.request = 1

\* The run is a later request for the URL of an earlier report.
RepeatOfReportedUrl ==
    /\ pc = "done"
    /\ body.parsed
    /\ ValidateUrl(body.url) = "ok"
    /\ firstReport.request > 0
    /\ firstReport.request < requests
    /\ URLToString(body.url) = firstReport.response.analysis.url

\* C4: idempotence through the cache. The second submission of a URL without
\* forceRescan returns the first report, tagged fromCache = true, and invokes
\* no analyzer and launches no browser.
C4_CacheIdempotence ==
    (RepeatOfReportedUrl /\ ~body.forceRescan) =>
        /\ response.status = 200
        /\ response.analysis = firstReport.response.analysis
        /\ "fromCache" \in DOMAIN response
        /\ response.fromCache = TRUE
        /\ calls = <<>>

\* C5: forceRescan = true bypasses the cache (the selected analyzers run
\* again) and the report carries a fresh analysisId, different from the one
\* of the earlier report for that URL.
C5_ForceRescanFreshId ==
    (RepeatOfReportedUrl /\ body.forceRescan /\ response.status = 200) =>
        /\ \A k \in KindsOf(handler) :
               (shouldRun(body.component, k) /\ k # "cta") => Invoked(k)
        /\ "analysisId" \in DOMAIN response
        /\ "analysisId" \in DOMAIN firstReport.response =>
               response.analysisId # firstReport.response.analysisId

Count(op) == Cardinality(CallsOf(op))

Launched == \E i \in CallsOf("puppeteer.launch") : ~calls[i].threw

\* C7: session release. A run that launched a browser invokes browser.close
\* exactly once, on every exit path, before its response is produced; a run
\* that launched none never invokes it.
C7_SessionRelease ==
    /\ Count("browser.close") <= 1
    /\ Count("browser.close") = 1 => Launched
    /\ (response # NoResponse /\ Launched) => Count("browser.close") = 1

C7_Witness_ClosedAfterNavigationFailure ==
    /\ IsReport
    /\ Launched
    /\ \E i \in CallsOf("page.goto") : calls[i].threw
    /\ Count("browser.close") = 1
    /\ calls[Len(calls)].op = "browser.close"

AnalyzerOps == {AnalyzerOp(k) : k \in AnalyzerKinds}

\* Before call i of the run a browser was launched and then navigated.
NavigatedBefore(i) ==
    \E l, g \in DOMAIN calls :
        /\ l < g
        /\ g < i
        /\ calls[l].op = "puppeteer.launch" /\ ~calls[l].threw
        /\ calls[g].op = "page.goto" /\ ~calls[g].threw

\* C18: ordering within one analyze run. The browser session is acquired
\* before navigation and navigation comes before the invocation of any
\* analyzer: no analyzer is invoked before the session has been acquired.
C18_AcquireNavigateAnalyze ==
    \A i \in DOMAIN calls :
        /\ calls[i].op \in AnalyzerOps => NavigatedBefore(i)
        /\ calls[i].op = "page.goto" =>
               \E l \in 1..(i - 1) : calls[l].op = "puppeteer.launch" /\ ~calls[l].threw

\* C18, the part the code keeps: in route.ts the CTA analyzer is invoked
\* only after the launch and the navigation of that run.
C18_CtaAfterNavigation ==
    handler = "route.ts" =>
        \A i \in DOMAIN calls :
            /\ calls[i].op = "analyzeCTA" => NavigatedBefore(i)
            /\ calls[i].op = "page.goto" =>
                   \E l \in 1..(i - 1) : calls[l].op = "puppeteer.launch" /\ ~calls[l].threw

\* page.goto rejected (timeout or navigation error) and nothing else failed.
OnlyNavigationFailed ==
    /\ \E i \in CallsOf("page.goto") : calls[i].threw
    /\ \A i \in DOMAIN calls : calls[i].threw => calls[i].op = "page.goto"

\* C19: a navigation timeout does not abort the run. When page.goto fails,
\* the run still ends with a success report in which the CTA entry is the
\* failed one (score 0 with the failure issue), the other analyzers keep
\* the results they returned, and overallScore is the rounded mean of those
\* results alone.
C19_NavigationFailureKeepsRun ==
    (pc = "done" /\ OnlyNavigationFailed) =>
        LET others == {j \in {"font", "image"} : Returned(j)}
            sum == (IF "font" \in others THEN ReturnOf("font").score ELSE 0)
                   + (IF "image" \in others THEN ReturnOf("image").score ELSE 0)
        IN /\ response.status = 200
           /\ response.analysis.cta.score = 0
           /\ CtaFailureIssue \in response.analysis.cta.issues
           /\ ~Invoked("cta")
           /\ \A j \in others : response.analysis[j] = ReturnOf(j)
           /\ \A j \in {"font", "image"} \ others : response.analysis[j] = DefaultEntry
           /\ IsRoundedMean(response.analysis.overallScore, sum, Cardinality(others))

C19_Witness_ReportAfterNavigationTimeout ==
    /\ pc = "done"
    /\ OnlyNavigationFailed
    /\ Returned("font")
    /\ Returned("image")
    /\ response.status = 200
    /\ response.analysis.font.score = 60
    /\ response.analysis.image.score = 90
    /\ response.analysis.overallScore = 75

\* The request passed validation and its handler is under way or done.
Validated == pc # "idle" /\ body.parsed /\ ValidateUrl(body.url) = "ok"

\* The request's component is absent, 'all', or names analyzer k.
Selected(k) ==
    \/ body.component \in {Undefined, "all", k}
    \/ k = "speed" /\ body.component = "pageSpeed"

\* The handler entered analyzer k's block (route.ts: the CTA block starts
\* with the launch of its browser).
Began(k) ==
    IF k = "cta" /\ handler = "route.ts"
    THEN CallsOf("puppeteer.launch") # {}
    ELSE Invoked(k)

\* What the filter guarantees of a validated request; atEnd: the states in
\* which every selected analyzer must have been invoked.
FilterHonouredIn(atEnd) ==
    Validated =>
        /\ \A k \in KindsOf(handler) : Began(k) => Selected(k)
        /\ atEnd => \A k \in KindsOf(handler) : Selected(k) => Began(k)
        /\ \A k \in AnalyzerKinds :
               ~(k \in KindsOf(handler) /\ Selected(k)) =>
                   (~Invoked(k) /\ analysisResult[k] = DefaultEntry)
        /\ IsReport =>
               \A k \in AnalyzerKinds :
                   (body.component = k /\ Returned(k) /\ ~MarkedFailed(response.analysis, k)) =>
                       response.analysis.overallScore = response.analysis[k].score

\* C20: component filter. An analyzer is invoked if and only if the
\* request's component is absent, 'all', or names it: at the end of a run
\* every selected analyzer has been invoked, a non-selected one never is and
\* keeps its default entry, and with a single selected analyzer that
\* succeeds overallScore equals that analyzer's score.
C20_ComponentFilter == FilterHonouredIn(pc = "done")

\* C20, the part the code keeps: the same in every run that returns a
\* report.
C20_FilterInReports == FilterHonouredIn(IsReport)

\* --------------------------------------- createPuppeteerBrowser (part_001)

\* Calls of createPuppeteerBrowser one behaviour makes.
MaxBrowserCalls == 2

NodeEnvs == {Undefined, "development", "production"}

BlessKeys == {Undefined, "", "key-123"}

\* The options object: each flag present (a boolean) or left out.
OptionInputs ==
    UNION {[D -> BOOLEAN] : D \in SUBSET {"forceBrowserless", "blockConsentModals"}}

\* Destructuring with a default value.
Option(o, key, default) == IF key \in DOMAIN o THEN o[key] ELSE default

UseRemote_IgnoreKey(isProduction, forceBrowserless, browserlessKey) ==
    isProduction \/ forceBrowserless

\* The condition of the if: (isProduction || forceBrowserless) && browserlessKey.
UseRemote(isProduction, forceBrowserless, browserlessKey) ==
    (isProduction \/ forceBrowserless) /\ ~Falsy(browserlessKey)

\* The WebSocket endpoint handed to puppeteer.connect.
BrowserWSEndpoint(browserlessKey, blockConsentModals) ==
    [host |-> "wss://production-sfo.browserless.io",
     token |-> browserlessKey,
     headless |-> "false",
     stealth |-> "true",
     blockAds |-> "true",
     launch |-> IF blockConsentModals THEN "{\"blockConsentModals\":true}" ELSE Undefined]

NoEndpoint == BrowserWSEndpoint(Undefined, FALSE)

ConnectFailed_FallBackToLocal == "local"

\* The catch around puppeteer.connect rethrows: the call ends there.
ConnectFailed == "threw"

BrowserInit ==
    /\ env = [NODE_ENV |-> Undefined, BLESS_KEY |-> Undefined]
    /\ options = << >>
    /\ bpc = "idle"
    /\ localPuppeteer = Undefined
    /\ endpoint = NoEndpoint
    /\ executablePath = Undefined
    /\ bcalls = <<>>
    /\ outcome = "none"
    /\ invocations = 0

\* The call up to its first await: the branch is chosen, the endpoint built.
createPuppeteerBrowser(e, o) ==
    /\ bpc \in {"idle", "returned", "threw"}
    /\ invocations < MaxBrowserCalls
    /\ invocations' = invocations + 1
    /\ env' = e
    /\ options' = o
    /\ bcalls' = <<>>
    /\ outcome' = "none"
    /\ executablePath' = Undefined
    /\ UNCHANGED localPuppeteer
    /\ IF UseRemote(e.NODE_ENV = "production",
                    Option(o, "forceBrowserless", FALSE), e.BLESS_KEY)
       THEN /\ endpoint' = BrowserWSEndpoint(e.BLESS_KEY,
                                             Option(o, "blockConsentModals", FALSE))
            /\ bpc' = "connect"
       ELSE /\ endpoint' = NoEndpoint
            /\ bpc' = "local"
    /\ UNCHANGED <<routeVars, pageVars>>

\* puppeteer.connect: the browser, or the rethrown connection error.
Connect ==
    /\ bpc = "connect"
    /\ bcalls' = Append(bcalls, "puppeteer.connect")
    /\ \/ /\ bpc' = "returned"
          /\ outcome' = "remote browser"
       \/ /\ bpc' = ConnectFailed
          /\ outcome' = IF ConnectFailed = "threw"
                        THEN "Browserless connection failed"
                        ELSE "none"
    /\ UNCHANGED <<env, options, localPuppeteer, endpoint, executablePath, invocations>>
    /\ UNCHANGED <<routeVars, pageVars>>

\* getLocalExecutablePath: import puppeteer once, null when it is missing.
getLocalExecutablePath ==
    /\ bpc = "local"
    /\ bpc' = "launch"
    /\ IF localPuppeteer = Undefined
       THEN \/ /\ localPuppeteer' = "puppeteer"
               /\ executablePath' = "/cache/chrome"
            \/ /\ localPuppeteer' = Undefined
               /\ executablePath' = Null
       ELSE /\ executablePath' = "/cache/chrome"
            /\ UNCHANGED localPuppeteer
    /\ UNCHANGED <<env, options, endpoint, bcalls, outcome, invocations>>
    /\ UNCHANGED <<routeVars, pageVars>>

\* puppeteer.launch of the local browser; its error propagates.
Launch ==
    /\ bpc = "launch"
    /\ bcalls' = Append(bcalls, "puppeteer.launch")
    /\ \/ /\ bpc' = "returned"
          /\ outcome' = "local browser"
       \/ /\ bpc' = "threw"
          /\ outcome' = "launch failed"
    /\ UNCHANGED <<env, options, localPuppeteer, endpoint, executablePath, invocations>>
    /\ UNCHANGED <<routeVars, pageVars>>

BrowserNext ==
    \/ \E nodeEnv \in NodeEnvs, key \in BlessKeys, o \in OptionInputs :
           createPuppeteerBrowser([NODE_ENV |-> nodeEnv, BLESS_KEY |-> key], o)
    \/ Connect
    \/ getLocalExecutablePath
    \/ Launch

\* ------------------------------------ createPuppeteerBrowser: properties

BCount(op) == Cardinality({i \in DOMAIN bcalls : bcalls[i] = op})

CredentialConfigured == env.BLESS_KEY \notin {Undefined, Null, ""}

RemoteSelected ==
    /\ CredentialConfigured
    /\ \/ env.NODE_ENV = "production"
       \/ ("forceBrowserless" \in DOMAIN options /\ options.forceBrowserless)

BrowserCallEnded == bpc \in {"returned", "threw"} /\ invocations > 0

\* C8: selection policy. A remote connection is attempted iff the credential
\* is configured and (forceBrowserless or production); otherwise, and always
\* when the credential is absent, a local browser is launched and no remote
\* connection is attempted.
C8_SelectionPolicy ==
    /\ bpc = "connect" => RemoteSelected
    /\ bpc \in {"local", "launch"} => ~RemoteSelected
    /\ BrowserCallEnded =>
           /\ BCount("puppeteer.connect") = (IF RemoteSelected THEN 1 ELSE 0)
           /\ BCount("puppeteer.launch") = (IF RemoteSelected THEN 0 ELSE 1)

C8_Witness_ForcedWithoutCredential ==
    /\ BrowserCallEnded
    /\ env.NODE_ENV = "production"
    /\ Falsy(env.BLESS_KEY)
    /\ "forceBrowserless" \in DOMAIN options
    /\ options.forceBrowserless
    /\ outcome = "local browser"
    /\ bcalls = <<"puppeteer.launch">>

\* The connection of the call under way was attempted and failed.
ConnectionFailed ==
    /\ invocations > 0
    /\ bpc # "connect"
    /\ BCount("puppeteer.connect") > 0
    /\ outcome # "remote browser"

\* C9: when the remote browser is selected and the connection fails, the
\* call fails to its caller after exactly one connection attempt: no local
\* launch, no retry.
C9_NoFallbackNoRetry ==
    ConnectionFailed =>
        /\ bpc = "threw"
        /\ outcome = "Browserless connection failed"
        /\ bcalls = <<"puppeteer.connect">>

C9_Witness_ConnectionFailure ==
    /\ ConnectionFailed
    /\ bpc = "threw"
    /\ env.NODE_ENV # "production"
    /\ invocations = 2

\* ------------------------------------------------- page.tsx (Home): inputs

\* Calls of handleAnalyze one behaviour makes.
MaxSubmits == 2

\* Calls of handleEmailSubmit one behaviour makes.
MaxEmailSubmits == 2

PageUrls == {"https://a.example"}

Emails == {"a@x.io", "b@x.io"}

Field(r, f) == IF f \in DOMAIN r THEN r[f] ELSE Undefined

\* What the page reads of an /api/analyze answer: response.ok, the fields of
\* the JSON body it uses, and the message of a rejected fetch.
Answer(ok, analysisId, fromCache, screenshotUrl, error) ==
    [ok |-> ok, analysisId |-> analysisId, fromCache |-> fromCache,
     screenshotUrl |-> screenshotUrl, error |-> error]

\* The page's view of a response built by the route handler.
ClientView(resp) ==
    Answer(resp.status = 200,
           Field(resp, "analysisId"),
           Field(resp, "fromCache"),
           IF "analysis" \in DOMAIN resp
           THEN Field(resp.analysis, "screenshotUrl") ELSE Undefined,
           Field(resp, "error"))

\* The answers the route handlers of this repository give.
RouteAnswers ==
    {ClientView(SuccessResponse(InitialAnalysisResult("https://a.example/"))),
     ClientView(ErrorResponse(500, "Internal server error"))}

\* Answers of the documented interface: an id, the cache tag, a screenshot.
InterfaceAnswers ==
    {Answer(TRUE, id, fc, shot, Undefined) :
        id \in {Undefined, "id-1"}, fc \in {Undefined, "true"},
        shot \in {Undefined, "report.png"}}

\* A non-ok response without an error field, and a rejected fetch.
FailureAnswers ==
    {Answer(FALSE, Undefined, Undefined, Undefined, Undefined),
     Answer(FALSE, Undefined, Undefined, Undefined, "Failed to fetch")}

AnalyzeAnswers == RouteAnswers \cup InterfaceAnswers \cup FailureAnswers

\* /api/screenshot: ok with a url, ok without one, non-ok, rejected fetch.
ScreenshotAnswers ==
    {[ok |-> TRUE, url |-> "shot.png"], [ok |-> TRUE, url |-> Undefined],
     [ok |-> FALSE, url |-> Undefined]}

\* /api/email: ok, non-ok, rejected fetch.
EmailAnswers == {"ok", "not ok", "rejected"}

\* a || b on the string-valued fields used here.
Or(a, b) == IF Falsy(a) THEN b ELSE a

\* ------------------------------------------- page.tsx: state updates

InitialState ==
    [result |-> Null, isLoading |-> FALSE, error |-> Null, showEmailInput |-> FALSE,
     currentUrl |-> Null, fromCache |-> FALSE, emailSubmitted |-> FALSE,
     emailSentToAPI |-> FALSE, screenshotUrl |-> Null, analysisId |-> Null,
     emailLoading |-> FALSE]

LoadingState(url) ==
    [InitialState EXCEPT !.isLoading = TRUE, !.showEmailInput = TRUE,
                         !.currentUrl = url]

CompletedState(prev, a) ==
    [prev EXCEPT !.result = "report",
                 !.isLoading = FALSE,
                 !.error = Null,
                 !.fromCache = ~Falsy(a.fromCache),
                 !.analysisId = Or(a.analysisId, Null),
                 !.screenshotUrl = Or(a.screenshotUrl, prev.screenshotUrl)]

ErroredState(prev, a) ==
    [prev EXCEPT !.result = Null,
                 !.isLoading = FALSE,
                 !.error = Or(a.error, "Analysis failed")]

EmailSubmittedState(prev) ==
    [prev EXCEPT !.emailLoading = TRUE, !.emailSubmitted = TRUE]

\* callEmailAPI, the response was ok.
EmailSentState(prev) ==
    [prev EXCEPT !.emailSentToAPI = TRUE, !.emailLoading = FALSE]

EmailFailedState_SurfacesError(prev) ==
    [prev EXCEPT !.error = "Failed to send email", !.emailLoading = FALSE]

\* callEmailAPI, the catch block: a non-ok response or a rejected fetch is
\* logged and the state is updated as on success.
EmailFailedState(prev) ==
    [prev EXCEPT !.emailSentToAPI = TRUE, !.emailLoading = FALSE]

ScreenshotState(prev, url) ==
    [prev EXCEPT !.screenshotUrl = Or(url, Null)]

ScreenshotFailed_SetsError(prev) ==
    [prev EXCEPT !.error = "Screenshot capture failed", !.isLoading = FALSE]

\* A non-ok screenshot response or a rejected fetch: nothing but a warning.
ScreenshotFailed(prev) == prev

\* Which handlers the rendered page offers.
CanAnalyze(st) == ~st.showEmailInput /\ st.result = Null

CanSubmitEmail(st) ==
    \/ st.showEmailInput /\ st.isLoading
    \/ st.result # Null /\ ~st.isLoading

CanReset_ResultOnly(st) == st.result # Null /\ ~st.isLoading

\* ErrorNotification (onReset) and the "Analyze Another Page" button.
CanReset(st) ==
    \/ st.error # Null
    \/ st.result # Null /\ ~st.isLoading

CanForceRescan(st) == st.result # Null /\ ~st.isLoading /\ st.fromCache

\* handleAnalyze awaits the analysis promise only.
AwaitsAnalysis(run) == run.pc = "awaitAnalysis"

PageInit ==
    /\ analysisState = InitialState
    /\ pendingEmailRef = Null
    /\ runs = <<>>
    /\ emailCalls = <<>>
    /\ emailSubmits = 0

NoAnswer == Answer(FALSE, Undefined, Undefined, Undefined, "<pending>")

\* callEmailAPI up to its await: the fetch of /api/email is sent.
EmailCall(email, analysisId, via) ==
    [email |-> email, analysisId |-> analysisId, via |-> via,
     session |-> Len(runs), settled |-> FALSE, failed |-> FALSE]

\* handleAnalyze up to its await: the state is replaced, both fetches start.
StartAnalyze(url, forceRescan) ==
    /\ Len(runs) < MaxSubmits
    /\ analysisState' = LoadingState(url)
    /\ runs' = Append(runs, [url |-> url, forceRescan |-> forceRescan,
                             pc |-> "awaitAnalysis", shot |-> "pending",
                             answer |-> NoAnswer, pended |-> Null])
    /\ UNCHANGED <<pendingEmailRef, emailCalls, emailSubmits>>
    /\ UNCHANGED <<routeVars, browserVars>>

handleAnalyze(url) ==
    /\ CanAnalyze(analysisState)
    /\ StartAnalyze(url, FALSE)

handleForceRescan ==
    /\ CanForceRescan(analysisState)
    /\ ~Falsy(analysisState.currentUrl)
    /\ StartAnalyze(analysisState.currentUrl, TRUE)

\* The analysis fetch settles: the report or the error is stored, and a
\* pending email is flushed when the answer carries an analysisId.
AnalysisResponds(i, a) ==
    /\ AwaitsAnalysis(runs[i])
    /\ emailSubmits' = emailSubmits
    /\ UNCHANGED pendingEmailRef
    /\ IF a.ok
       THEN /\ analysisState' = CompletedState(analysisState, a)
            /\ IF ~Falsy(pendingEmailRef) /\ ~Falsy(a.analysisId)
               THEN /\ emailCalls' =
                          Append(emailCalls, EmailCall(pendingEmailRef, a.analysisId, i))
                    /\ runs' = [runs EXCEPT ![i].pc = "awaitEmail", ![i].answer = a]
               ELSE /\ runs' = [runs EXCEPT ![i].pc = "done", ![i].answer = a]
                    /\ UNCHANGED emailCalls
       ELSE /\ analysisState' = ErroredState(analysisState, a)
            /\ runs' = [runs EXCEPT ![i].pc = "done", ![i].answer = a]
            /\ UNCHANGED emailCalls
    /\ UNCHANGED <<routeVars, browserVars>>

\* The screenshot fetch settles.
ScreenshotResponds(i, s) ==
    /\ runs[i].shot = "pending"
    /\ runs' = [runs EXCEPT ![i].shot = IF s.ok THEN "delivered" ELSE "failed"]
    /\ analysisState' = IF s.ok
                        THEN ScreenshotState(analysisState, s.url)
                        ELSE ScreenshotFailed(analysisState)
    /\ UNCHANGED <<pendingEmailRef, emailCalls, emailSubmits>>
    /\ UNCHANGED <<routeVars, browserVars>>

handleEmailSubmit(email) ==
    /\ CanSubmitEmail(analysisState)
    /\ emailSubmits < MaxEmailSubmits
    /\ emailSubmits' = emailSubmits + 1
    /\ analysisState' = EmailSubmittedState(analysisState)
    /\ IF ~Falsy(analysisState.analysisId)
       THEN /\ emailCalls' =
                  Append(emailCalls, EmailCall(email, analysisState.analysisId, 0))
            /\ UNCHANGED <<pendingEmailRef, runs>>
       ELSE /\ pendingEmailRef' = email
            /\ runs' = IF runs[Len(runs)].pc = "awaitAnalysis"
                        THEN [runs EXCEPT ![Len(runs)].pended = email]
                        ELSE runs
            /\ UNCHANGED emailCalls
    /\ UNCHANGED <<routeVars, browserVars>>

\* The fetch of /api/email settles and callEmailAPI returns, whatever the
\* answer; the flush of handleAnalyze then clears the pending holder.
EmailResponds(j, e) ==
    /\ ~emailCalls[j].settled
    /\ emailCalls' = [emailCalls EXCEPT ![j].settled = TRUE, ![j].failed = (e # "ok")]
    /\ analysisState' = IF e = "ok"
                        THEN EmailSentState(analysisState)
                        ELSE EmailFailedState(analysisState)
    /\ IF emailCalls[j].via # 0
       THEN /\ pendingEmailRef' = Null
            /\ runs' = [runs EXCEPT ![emailCalls[j].via].pc = "done"]
       ELSE UNCHANGED <<pendingEmailRef, runs>>
    /\ UNCHANGED emailSubmits
    /\ UNCHANGED <<routeVars, browserVars>>

handleReset ==
    /\ CanReset(analysisState)
    /\ pendingEmailRef' = Null
    /\ analysisState' = InitialState
    /\ UNCHANGED <<runs, emailCalls, emailSubmits>>
    /\ UNCHANGED <<routeVars, browserVars>>

PageNext ==
    \/ \E url \in PageUrls : handleAnalyze(url)
    \/ handleForceRescan
    \/ \E i \in DOMAIN runs, a \in AnalyzeAnswers : AnalysisResponds(i, a)
    \/ \E i \in DOMAIN runs, s \in ScreenshotAnswers : ScreenshotResponds(i, s)
    \/ \E email \in Emails : handleEmailSubmit(email)
    \/ \E j \in DOMAIN emailCalls, e \in EmailAnswers : EmailResponds(j, e)
    \/ handleReset

\* --------------------------------------------------- page.tsx: properties

FlushesOf(i) == {j \in DOMAIN emailCalls : emailCalls[j].via = i}

\* Run i ended with a report and an email was stored as pending while its
\* analysis was awaited (pended: the last such address).
CompletedWithPendingEmail(i) ==
    /\ runs[i].pc # "awaitAnalysis"
    /\ runs[i].answer.ok
    /\ runs[i].pended # Null

\* Exactly one automatic dispatch for run i, of the last address stored as
\* pending; once it has settled the holder of the current session is empty.
FlushedOnce(i) ==
    /\ Cardinality(FlushesOf(i)) = 1
    /\ \A j \in FlushesOf(i) :
           /\ emailCalls[j].email = runs[i].pended
           /\ emailCalls[j].analysisId = runs[i].answer.analysisId
           /\ (emailCalls[j].settled /\ i = Len(runs)) => pendingEmailRef = Null

\* C6: email ordering. If emails were submitted before the session's
\* analysisId existed, then once its analysis has completed successfully
\* exactly one dispatch has been made automatically, with the last-submitted
\* address, and the pending holder is empty afterwards.
C6_EmailOrdering ==
    \A i \in DOMAIN runs : CompletedWithPendingEmail(i) => FlushedOnce(i)

\* C6, the part the code keeps: when the answer carries an analysisId and the
\* holder still holds the address at that moment, it is flushed exactly once.
C6_FlushWhenIdArrives ==
    \A i \in DOMAIN runs :
        (/\ CompletedWithPendingEmail(i)
         /\ ~Falsy(runs[i].answer.analysisId)
         /\ \A k \in DOMAIN runs : k < i => FlushesOf(k) = {}) => FlushedOnce(i)

\* C10: a screenshot failure never fails or delays the analysis. While the
\* analysis is awaited its answer can be taken whatever the screenshot did
\* (failed, or still pending); the answer leads to the report or to the
\* error exactly as the answer says; and a failed screenshot changes no
\* field of the session state, so it never sets error.
C10_ScreenshotFailureIsHarmless ==
    /\ [](\A i \in DOMAIN runs :
            runs[i].pc = "awaitAnalysis" =>
                \A a \in AnalyzeAnswers : ENABLED AnalysisResponds(i, a))
    /\ [][\A i \in DOMAIN runs, a \in AnalyzeAnswers :
            AnalysisResponds(i, a) =>
                /\ ~analysisState'.isLoading
                /\ a.ok => (analysisState'.result = "report" /\ analysisState'.error = Null)
                /\ ~a.ok => (analysisState'.result = Null /\ analysisState'.error # Null)]_vars
    /\ [][\A i \in DOMAIN runs, s \in ScreenshotAnswers :
            (~s.ok /\ ScreenshotResponds(i, s)) => analysisState' = analysisState]_vars

C10_Witness_CompletedDespiteFailedScreenshot ==
    /\ runs # <<>>
    /\ runs[Len(runs)].shot = "failed"
    /\ runs[Len(runs)].pc = "done"
    /\ runs[Len(runs)].answer.ok
    /\ analysisState.result = "report"
    /\ ~analysisState.isLoading
    /\ analysisState.error = Null
    /\ analysisState.screenshotUrl = Null

\* Run i is the current session and its report is attached.
ReportAttached(i) ==
    /\ i = Len(runs)
    /\ runs[i].pc # "awaitAnalysis"
    /\ runs[i].answer.ok
    /\ analysisState.result # Null

\* C11: screenshot precedence under every interleaving. When the report
\* delivers a screenshot URL the session's screenshotUrl becomes the report's
\* value even if the screenshot response came first, and a screenshot
\* response of the session arriving after that report replaces it neither
\* with its own URL nor with null.
C11_ScreenshotPrecedence ==
    /\ [][\A i \in DOMAIN runs, a \in AnalyzeAnswers :
            (AnalysisResponds(i, a) /\ a.ok /\ ~Falsy(a.screenshotUrl)) =>
                analysisState'.screenshotUrl = a.screenshotUrl]_vars
    /\ [][\A i \in DOMAIN runs, s \in ScreenshotAnswers :
            (/\ ScreenshotResponds(i, s)
             /\ ReportAttached(i)
             /\ ~Falsy(runs[i].answer.screenshotUrl)) =>
                analysisState'.screenshotUrl = runs[i].answer.screenshotUrl]_vars

\* C11, the part the code keeps: the report's URL supersedes a preview that
\* arrived before it.
C11_ReportSupersedesEarlierPreview ==
    [][\A i \in DOMAIN runs, a \in AnalyzeAnswers :
            (AnalysisResponds(i, a) /\ a.ok /\ ~Falsy(a.screenshotUrl)) =>
                analysisState'.screenshotUrl = a.screenshotUrl]_vars

\* The state after reset and before the next submit.
Idle == analysisState.currentUrl = Null

\* Run i is no longer the current session: a later submission replaced it,
\* or reset ended it.
Superseded(i) == i < Len(runs) \/ Idle

\* C12: stale results are discarded. A response of a superseded run (the
\* analysis answer, the screenshot, the completion of an email dispatch)
\* leaves the state of the current session unchanged; after reset the state
\* stays the cleared one until the next submit.
C12_StaleResultsDiscarded ==
    /\ [][\A i \in DOMAIN runs :
            (/\ Superseded(i)
             /\ \/ \E a \in AnalyzeAnswers : AnalysisResponds(i, a)
                \/ \E s \in ScreenshotAnswers : ScreenshotResponds(i, s)) =>
                analysisState' = analysisState]_vars
    /\ [][\A j \in DOMAIN emailCalls :
            (/\ Superseded(emailCalls[j].session)
             /\ \E e \in EmailAnswers : EmailResponds(j, e)) =>
                analysisState' = analysisState]_vars
    /\ [](Idle => analysisState = InitialState)

\* C13: submit(url) clears the pending-email holder with the other fields,
\* so the address an automatic dispatch sends for a run is one stored as
\* pending during that very run, never one captured in an earlier session.
C13_SubmitClearsPendingEmail ==
    /\ \A i \in DOMAIN runs :
           (i = Len(runs) /\ runs[i].pc = "awaitAnalysis" /\ runs[i].pended = Null) =>
               pendingEmailRef = Null
    /\ \A j \in DOMAIN emailCalls :
           emailCalls[j].via # 0 =>
               emailCalls[j].email = runs[emailCalls[j].via].pended

\* The current session is Completed on an answer the route handlers of this
\* repository give.
CompletedOnRouteAnswer ==
    /\ runs # <<>>
    /\ ReportAttached(Len(runs))
    /\ ~analysisState.isLoading
    /\ runs[Len(runs)].answer \in RouteAnswers

\* C14: Completed implies an id. Whenever the session is Completed (report
\* attached, not loading) on the success response the analyze endpoint
\* produces, analysisId is set.
C14_CompletedImpliesId ==
    CompletedOnRouteAnswer => analysisState.analysisId # Null

\* The session ended with an error message and no report.
Errored ==
    /\ analysisState.error # Null
    /\ analysisState.result = Null
    /\ ~analysisState.isLoading

\* C15: a pipeline failure leads to Errored and is never stuck. A non-ok
\* response or a rejected fetch ends the session with an error message, no
\* report and isLoading false; in that state reset is offered, reset leads
\* to Idle, and Idle accepts a fresh submission.
C15_FailureLeadsToErrored ==
    /\ [][\A i \in DOMAIN runs, a \in AnalyzeAnswers :
            (AnalysisResponds(i, a) /\ ~a.ok) =>
                /\ analysisState'.error # Null
                /\ analysisState'.result = Null
                /\ ~analysisState'.isLoading]_vars
    /\ [](Errored => ENABLED handleReset)
    /\ [][handleReset => (analysisState' = InitialState /\ pendingEmailRef' = Null)]_vars
    /\ []((Idle /\ Len(runs) < MaxSubmits) =>
            \A url \in PageUrls : ENABLED handleAnalyze(url))

C15_Witness_ResubmittedAfterError ==
    /\ Len(runs) = 2
    /\ runs[1].pc = "done"
    /\ ~runs[1].answer.ok
    /\ runs[1].answer.error = "Failed to fetch"
    /\ runs[2].pc = "awaitAnalysis"
    /\ ~runs[2].forceRescan
    /\ analysisState.isLoading
    /\ analysisState.error = Null

\* C16: best-effort email dispatch. When the delivery call fails (non-ok
\* response or rejected fetch) the session is still marked dispatched
\* (emailSentToAPI true, emailLoading false), no further delivery call is
\* issued, and error and result are left as they were.
C16_BestEffortEmailDispatch ==
    [][\A j \in DOMAIN emailCalls, e \in EmailAnswers :
            (EmailResponds(j, e) /\ e # "ok") =>
                /\ analysisState'.emailSentToAPI
                /\ ~analysisState'.emailLoading
                /\ analysisState'.error = analysisState.error
                /\ analysisState'.result = analysisState.result
                /\ Len(emailCalls') = Len(emailCalls)]_vars

C16_Witness_FailedDeliveryMarkedSent ==
    /\ Len(emailCalls) = 1
    /\ emailCalls[1].settled
    /\ emailCalls[1].failed
    /\ emailCalls[1].session = Len(runs)
    /\ analysisState.emailSentToAPI
    /\ ~analysisState.emailLoading
    /\ analysisState.error = Null
    /\ analysisState.result = "report"

DispatchesOf(i) == {j \in DOMAIN emailCalls : emailCalls[j].session = i}

\* C17: dispatched is terminal. Within one session at most one email
\* dispatch is sent to the delivery collaborator, whatever is submitted
\* after it.
C17_DispatchedIsTerminal ==
    \A i \in DOMAIN runs : Cardinality(DispatchesOf(i)) <= 1

\* The current session stored the address the holder holds.
HeldByCurrentSession ==
    /\ runs # <<>>
    /\ pendingEmailRef # Null
    /\ runs[Len(runs)].pended # Null

\* The delivery call j was the flush of an earlier session.
StaleFlush(j) == emailCalls[j].via # 0 /\ emailCalls[j].via < Len(runs)

\* C21: the pending-email holder is emptied only by reset or by the flush
\* that dispatched the very address it holds, and the completion of an
\* earlier session's flush never erases an address the current session
\* stored as pending in the meantime.
C21_HolderEmptiedOnlyByOwnFlush ==
    /\ [][(pendingEmailRef # Null /\ pendingEmailRef' = Null) =>
            \/ handleReset
            \/ \E j \in DOMAIN emailCalls, e \in EmailAnswers :
                   /\ EmailResponds(j, e)
                   /\ emailCalls[j].via # 0
                   /\ emailCalls[j].email = pendingEmailRef]_vars
    /\ [][\A j \in DOMAIN emailCalls, e \in EmailAnswers :
            (EmailResponds(j, e) /\ StaleFlush(j) /\ HeldByCurrentSession) =>
                pendingEmailRef' = pendingEmailRef]_vars

\* C21, the part the code keeps: nothing but reset and the completion of a
\* flush ever empties the holder.
C21_HolderEmptiedByResetOrFlush ==
    [][(pendingEmailRef # Null /\ pendingEmailRef' = Null) =>
            \/ handleReset
            \/ \E j \in DOMAIN emailCalls, e \in EmailAnswers :
                   EmailResponds(j, e) /\ emailCalls[j].via # 0]_vars

\* Every analysis request and every delivery call has answered.
AllAnswered ==
    /\ \A i \in DOMAIN runs : runs[i].pc = "done"
    /\ \A j \in DOMAIN emailCalls : emailCalls[j].settled

\* C22: email capture always settles. Once the analysis request and the
\* delivery calls have all answered, emailLoading is false again, whether
\* the analysis completed with an analysisId, completed without one, or
\* failed: no answer is outstanding that could still clear it.
C22_EmailCaptureSettles ==
    AllAnswered => ~analysisState.emailLoading

\* C22, the part the code keeps: when the analysis of the session completed
\* with an analysisId and the holder still held the address, the capture
\* settles.
C22_SettlesWhenFlushed ==
    (/\ AllAnswered
     /\ runs # <<>>
     /\ Len(emailCalls) = 1
     /\ emailCalls[1].via = Len(runs)
     /\ emailSubmits = 1) => ~analysisState.emailLoading

\* ------------------------------------------------------- specifications

Init == RouteInit /\ BrowserInit /\ PageInit

SpecRoute == Init /\ [][RouteNext]_vars

SpecBrowser == Init /\ [][BrowserNext]_vars

SpecPage == Init /\ [][PageNext]_vars

====
